---- MODULE Spec2Model ----
(***************************************************************************)
(* SC.RecordArray (datastore/system/record_array.js): a live view over a   *)
(* store, as a state machine.  Every record array of a small arena is a    *)
(* row of the state functions below; a synchronous call is a frame on      *)
(* `stack`, so that a flush can be re-entered from an observer or from a   *)
(* nested record array flushing its parents, exactly where the code allows *)
(* it.  Public operations start only when the stack is empty (the run loop *)
(* is single threaded).                                                    *)
(***************************************************************************)
EXTENDS Integers, Sequences, FiniteSets, TLC

\* ------------------------------------------------------------- bounds
\* store keys a change notification may name are 1..NChangeKeys
NChangeKeys == 1
\* calls an observer may make back into a record array per public call
MaxObserverCalls == 1
\* the arena of Spec: record arrays, store keys, longest storeKeys array
DataViews == 1
DataKeys == 2
DataLen == 2
\* the arena of SpecTree
TreeViews == 2
TreeKeys == 1
TreeLen == 1
\* the arena of SpecDestroy: record arrays (keys and lengths as in SpecTree)
DestroyViews == 3
\* the arena of SpecDiff: store keys, longest storeKeys array
DiffKeys == 2
DiffLen == 3
\* the arena of SpecBatch: store keys a store notification may name
NBatchKeys == 2

Max(a, b) == IF a > b THEN a ELSE b
Min(a, b) == IF a < b THEN a ELSE b

\* the rows of the state functions: every arena fits
NViews == Max(Max(DataViews, TreeViews), DestroyViews)
NKeys == Max(Max(DataKeys, TreeKeys), DiffKeys)
MaxLen == Max(Max(DataLen, TreeLen), DiffLen)
Views == 1..NViews
Keys == 1..NKeys
ChangeKeys == 1..NChangeKeys

\* ------------------------------------------------------------- values
\* SC.guidFor(store): the origin of the batches the store reports
StoreGuid == 0
Origins == {StoreGuid} \cup Views

\* storeKeys: null
NullKeys == <<0>>
KeySeqs == UNION {[1..n -> Keys] : n \in 0..MaxLen}

\* storeKeys ? storeKeys.get('length') : 0
KLen(ks) == IF ks = NullKeys THEN 0 ELSE Len(ks)

\* array[idx] with a zero-based idx; 0 stands for undefined
At(ks, idx) == IF ks # NullKeys /\ idx >= 0 /\ idx < Len(ks) THEN ks[idx + 1] ELSE 0

\* store.materializeRecord(storeKey): the store's record for the key
materializeRecord(storeKey) == [storeKey |-> storeKey]
\* an empty slot of _scra_records
NoRecord == [storeKey |-> 0]
\* _scra_records = null, [] or length = 0: no slot holds a record
NoRecords == [i \in 1..MaxLen |-> NoRecord]

\* one entry of _scra_changedStoreKeys
NoBatch == [added |-> {}, deleted |-> {}, updated |-> {}]
BatchIsEmpty(b) == b.added = {} /\ b.deleted = {} /\ b.updated = {}
\* an accumulation that keeps the last notification only
BatchUnion_Replace(a, b) == b

BatchUnion(a, b) ==
    [added |-> a.added \cup b.added,
     deleted |-> a.deleted \cup b.deleted,
     updated |-> a.updated \cup b.updated]
\* _scra_changedStoreKeys = null (an entry is never created empty)
NoChanges == [o \in Origins |-> NoBatch]

\* SC.Query.LOCAL, SC.Query.REMOTE
QueryLOCAL == "local"
QueryREMOTE == "remote"

\* SC.Record.EMPTY, .BUSY_LOADING, .BUSY_REFRESH, .READY_CLEAN, .ERROR: the
\* statuses a record array takes
EMPTY == "EMPTY"
BUSY_LOADING == "BUSY_LOADING"
BUSY_REFRESH == "BUSY_REFRESH"
READY_CLEAN == "READY_CLEAN"
ERROR == "ERROR"

\* status & SC.Record.READY: the READY bit is set in READY_CLEAN and in none
\* of the other four
hasREADY(s) == s = READY_CLEAN

\* ------------------------------------------------------------- state
VARIABLES
    dims,           \* the arena: [views, keys, len], fixed
    query,          \* per view: [scope, location, isEditable], fixed at creation
    store,          \* per view: whether the store property is set
    enabled,
    needsFlush,
    insideFlush,    \* _insideFlush
    flushed,        \* _flushed
    storeKeys,
    observed,       \* the storeKeys array carries this view's array observers
    records,        \* _scra_records
    changed,        \* _scra_changedStoreKeys
    nested,         \* nestedRecordArrays: [created, members]
    isDestroyed,
    inStore,        \* the store lists this record array
    stack,          \* the calls in progress, innermost last
    obsLeft,        \* observer calls left in the current public call
    lastFlush,      \* the view whose flush() was the last public call to return, or 0
    status,         \* per view: the status property
    ev,             \* what the last step did
    tally           \* per view: final notifications and store deregistrations

vars == <<dims, query, store, enabled, needsFlush, insideFlush, flushed, storeKeys,
          observed, records, changed, nested, isDestroyed, inStore, stack,
          obsLeft, lastFlush, status, ev, tally>>

config == <<dims, query, store>>
\* everything a record array holds
viewState == <<enabled, needsFlush, insideFlush, flushed, storeKeys, observed,
               records, changed, nested, isDestroyed, inStore>>

\* ------------------------------------------------------------- events
\* type: what the step did; v: to which record array; why: the branch
\* taken; note: the arguments of the arrayContentDidChange it sent, if any
NoEv == [type |-> "none", v |-> 0, why |-> "", note |-> <<>>]
Ev(type, v) == [NoEv EXCEPT !.type = type, !.v = v]

\* ------------------------------------------------------------- frames
Frame(op, v, pc) ==
    [op |-> op, v |-> v, pc |-> pc, force |-> FALSE, todo |-> <<>>,
     rest |-> {}, qr |-> NoBatch, idx |-> 0, amt |-> 0, keys |-> <<>>,
     pre |-> FALSE, cnt |-> 0]
FlushFrame(v, force) == [Frame("flush", v, "start") EXCEPT !.force = force]

Depth == Len(stack)
Top == stack[Depth]
Running == Depth > 0
Idle == Depth = 0
Pop == SubSeq(stack, 1, Depth - 1)
SetTop(f) == [stack EXCEPT ![Depth] = f]

\* ------------------------------------------------------------- the arena
\* the record arrays that exist, and the storeKeys arrays the store can hold
Live == 1..dims.views
LiveKeys == 1..dims.keys
LiveKeySeqs == UNION {[1..n -> LiveKeys] : n \in 0..dims.len}

\* ------------------------------------------------------------- queries
\* the scopes this model creates views with: view 1 is a root; every other
\* view is scoped from the view before it (a chain), from view 1 (a fan), or
\* from every earlier view (a view with several parents)
ChainScope == [v \in Views |-> IF v = 1 THEN <<>> ELSE <<v - 1>>]
FanScope == [v \in Views |-> IF v = 1 THEN <<>> ELSE <<1>>]
MultiScope == [v \in Views |-> [i \in 1..(v - 1) |-> i]]
Scopes == {ChainScope, FanScope, MultiScope}

Parents(v) == {query[v].scope[i] : i \in 1..Len(query[v].scope)}
IsLocal(v) == query[v].location = QueryLOCAL

\* ------------------------------------------------------------- the differ
NoRange == <<>>

\* while (oldStoreKeys[startIdx] == storeKeys[startIdx] && startIdx < newLen)
RECURSIVE ScanFront(_, _, _)
ScanFront(old, new, startIdx) ==
    IF At(old, startIdx) = At(new, startIdx) /\ startIdx < Len(new)
    THEN ScanFront(old, new, startIdx + 1)
    ELSE startIdx

\* while (oldStoreKeys[endIdx] == storeKeys[endIdx] && endIdx > startIdx)
RECURSIVE ScanBack(_, _, _, _)
ScanBack(old, new, startIdx, endIdx) ==
    IF At(old, endIdx) = At(new, endIdx) /\ endIdx > startIdx
    THEN ScanBack(old, new, startIdx, endIdx - 1)
    ELSE endIdx

\* a differ that compares the lengths alone
findDifferences_LengthsOnly(old, new) ==
    IF KLen(old) = KLen(new) THEN NoRange
    ELSE <<Min(KLen(old), KLen(new)), Max(KLen(old), KLen(new)) - Min(KLen(old), KLen(new))>>

\* _findDifferences(oldStoreKeys, storeKeys): <<start, length>> (the
\* SC.IndexSet) or NoRange (null).  Arrays are values here, so the
\* `oldStoreKeys === storeKeys` shortcut is the case of equal contents, which
\* the scans decide the same way.
findDifferences(old, new) ==
    IF old = NullKeys
    THEN IF new = NullKeys \/ Len(new) = 0 THEN NoRange ELSE <<0, Len(new)>>
    ELSE LET oldLen == Len(old)
             newLen == Len(new)
             maxLen == Max(oldLen, newLen)
             startIdx == ScanFront(old, new, 0)
             endIdx == ScanBack(old, new, startIdx, newLen - 1)
         IN  IF startIdx < maxLen
             THEN <<startIdx,
                    IF endIdx >= startIdx THEN endIdx - startIdx + 1
                                          ELSE maxLen - startIdx>>
             ELSE NoRange

InRange(range, idx) == range # NoRange /\ idx >= range[1] /\ idx < range[1] + range[2]

\* a flush that drops the whole cache
invalidateRecords_All(recs, range, newLen) == NoRecords

\* _notifyStoreKeyChanges, the cache: recordCache[index] = null over the
\* difference set, then recordCache.length = newLen
invalidateRecords(recs, range, newLen) ==
    [i \in 1..MaxLen |->
        IF InRange(range, i - 1) \/ i - 1 >= newLen THEN NoRecord ELSE recs[i]]

\* a notification that names the difference set alone
notifyArgs_RangeOnly(old, new, range) == <<range[1], range[2], range[2]>>

\* a notification whose removed count is the length of the difference set
notifyArgs_RemovedInRange(old, new, range) ==
    <<range[1], range[2], Len(new) - range[1]>>

\* _notifyStoreKeyChanges, the notification:
\* arrayContentDidChange(firstDifference, oldLen - firstDifference, newLen - firstDifference)
notifyArgs(old, new, range) ==
    <<range[1], KLen(old) - range[1], Len(new) - range[1]>>

\* ------------------------------------------------------------- the query
\* queryResult = query.merge(_flush ? null : storeKeys, changes, this): the
\* query is outside the record array, which takes whatever it answers: any
\* storeKeys array, any added, deleted and updated sets
merge(old, ch) ==
    {[storeKeys |-> ks, changes |-> [added |-> a, deleted |-> d, updated |-> u]] :
        ks \in LiveKeySeqs, a \in SUBSET ChangeKeys, d \in SUBSET ChangeKeys,
        u \in SUBSET ChangeKeys}

\* ------------------------------------------------------------- hierarchy
NoNested == [created |-> FALSE, members |-> {}]
Kids(v) == IF nested[v].created THEN nested[v].members ELSE {}

\* the views parentDidBecomeDirty reaches from the views of S
RECURSIVE Reach(_)
Reach(S) ==
    LET T == S \cup UNION {Kids(x) : x \in S}
    IN  IF T = S THEN S ELSE Reach(T)

\* parentDidBecomeDirty: needsFlush = YES, then the same on every nested array
parentDidBecomeDirty(v) ==
    [w \in Views |-> IF w \in Reach({v}) THEN TRUE ELSE needsFlush[w]]

\* nestedRecordArrays.invoke('parentDidChangeStoreKeys', added, deleted,
\* updated, this), with parentDidChangeStoreKeys's own guard and unions
parentDidChangeStoreKeys(ch, v, qr) ==
    [c \in Views |->
        IF c \in Kids(v) /\ ~BatchIsEmpty(qr)
        THEN [ch[c] EXCEPT ![v] = BatchUnion(@, qr)]
        ELSE ch[c]]

\* ------------------------------------------------------------- Init
Wrapper(op, v) == Frame(op, v, "done")

\* the queries of an arena of n views: the scopes above, cut to the arena
ScopesOf(n) ==
    {[v \in Views |-> IF v <= n THEN sc[v] ELSE <<>>] : sc \in Scopes}

QueriesOf(n, locations, editables) ==
    {[v \in Views |-> [scope |-> sc[v], location |-> loc[v], isEditable |-> ed[v]]] :
        sc \in ScopesOf(n),
        loc \in [Views -> locations],
        ed \in [Views -> editables]}

NoTally == [notes |-> 0, storeOut |-> 0, parentOut |-> 0]

InitViews ==
    /\ store = [v \in Views |-> TRUE]
    /\ enabled = [v \in Views |-> TRUE]
    /\ needsFlush = [v \in Views |-> TRUE]
    /\ insideFlush = [v \in Views |-> FALSE]
    /\ flushed = [v \in Views |-> FALSE]
    /\ storeKeys = [v \in Views |-> NullKeys]
    /\ observed = [v \in Views |-> FALSE]
    /\ records = [v \in Views |-> NoRecords]
    /\ changed = [v \in Views |-> NoChanges]
    /\ nested = [v \in Views |-> NoNested]
    /\ isDestroyed = [v \in Views |-> FALSE]
    /\ inStore = [v \in Views |-> TRUE]
    /\ stack = <<>>
    /\ obsLeft = MaxObserverCalls
    /\ lastFlush = 0
    /\ status = [v \in Views |-> EMPTY]
    /\ ev = NoEv
    /\ tally = [v \in Views |-> NoTally]

\* ------------------------------------------------------------- public calls
\* a public call starts: its frames go on the empty stack
Begin(frames, op, v) ==
    /\ Idle
    /\ stack' = frames
    /\ lastFlush' = IF op = "flush()" /\ lastFlush = v THEN v ELSE 0
    /\ ev' = Ev("call", v)
    /\ UNCHANGED <<config, status, obsLeft, tally>>

\* flush()
CallFlush(v) ==
    /\ Begin(<<Wrapper("flush()", v), FlushFrame(v, FALSE)>>, "flush()", v)
    /\ UNCHANGED viewState

\* reload(): this.flush(YES)
CallReload(v) ==
    /\ Begin(<<Wrapper("reload()", v), FlushFrame(v, TRUE)>>, "reload()", v)
    /\ UNCHANGED viewState

\* length: this.flush(), then the length of storeKeys
CallLength(v) ==
    /\ Begin(<<Wrapper("length", v), FlushFrame(v, FALSE)>>, "length", v)
    /\ UNCHANGED viewState

\* objectAt(idx): this.flush(), then the body
CallObjectAt(v) ==
    /\ Begin(<<Frame("objectAt", v, "body"), FlushFrame(v, FALSE)>>, "objectAt", v)
    /\ UNCHANGED viewState

\* forEach(callback): this.flush(), then the body
CallForEach(v) ==
    /\ Begin(<<Frame("forEach", v, "body"), FlushFrame(v, FALSE)>>, "forEach", v)
    /\ UNCHANGED viewState

\* replace(idx, amt, recs): this.flush(), then the body
CallReplace(v) ==
    /\ Begin(<<Frame("replace", v, "body"), FlushFrame(v, FALSE)>>, "replace", v)
    /\ UNCHANGED viewState

\* destroy()
CallDestroy(v) ==
    /\ Begin(<<[Wrapper("destroy()", v) EXCEPT !.pre = isDestroyed[v],
                                              !.idx = KLen(storeKeys[v]),
                                              !.rest = Reach({v})],
               Frame("destroy", v, "start")>>, "destroy()", v)
    /\ UNCHANGED viewState

\* enable(): nothing when enabled, else enabled = YES and flushFromLeafs().
\* The wrapper keeps what the call found: that the view was disabled (pre)
\* and the store batch it held then (qr).
CallEnable(v) ==
    /\ IF enabled[v]
       THEN /\ Begin(<<Wrapper("enable()", v)>>, "enable()", v)
            /\ UNCHANGED enabled
       ELSE /\ Begin(<<[Wrapper("enable()", v) EXCEPT
                            !.pre = TRUE, !.qr = changed[v][StoreGuid]],
                       Frame("flushFromLeafs", v, "start")>>, "enable()", v)
            /\ enabled' = [enabled EXCEPT ![v] = TRUE]
    /\ UNCHANGED <<needsFlush, insideFlush, flushed, storeKeys, observed,
                   records, changed, nested, isDestroyed, inStore>>

\* disable()
CallDisable(v) ==
    /\ Begin(<<Wrapper("disable()", v)>>, "disable()", v)
    /\ enabled' = [enabled EXCEPT ![v] = FALSE]
    /\ UNCHANGED <<needsFlush, insideFlush, flushed, storeKeys, observed,
                   records, changed, nested, isDestroyed, inStore>>

\* flushFromLeafs(), as the store calls it after reporting changes
CallFlushFromLeafs(v) ==
    /\ Begin(<<Wrapper("flushFromLeafs()", v), Frame("flushFromLeafs", v, "start")>>,
             "flushFromLeafs()", v)
    /\ UNCHANGED viewState

\* the public call has returned
Return ==
    /\ Depth = 1
    /\ Top.pc = "done"
    /\ stack' = <<>>
    /\ lastFlush' = IF Top.op = "flush()" THEN Top.v ELSE 0
    /\ obsLeft' = MaxObserverCalls
    /\ ev' = NoEv
    /\ UNCHANGED <<config, status, viewState, tally>>

\* ------------------------------------------------------------- store callbacks
\* storeDidChangeStoreKeys(storeKeys, recordTypes); match is what
\* query.containsRecordTypes(recordTypes) answers.  The wrapper keeps the
\* arguments (rest, pre).
storeDidChangeStoreKeys(v, keys, match) ==
    /\ inStore[v]
    /\ Begin(<<[Wrapper("storeDidChangeStoreKeys", v) EXCEPT
                    !.rest = keys, !.pre = match]>>, "storeDidChangeStoreKeys", v)
    /\ IF ~IsLocal(v) \/ ~match \/ keys = {}
       THEN UNCHANGED <<changed, needsFlush>>
       ELSE /\ changed' = [changed EXCEPT ![v][StoreGuid].updated = @ \cup keys]
            /\ needsFlush' = parentDidBecomeDirty(v)
    /\ UNCHANGED <<enabled, insideFlush, flushed, storeKeys, observed, records,
                   nested, isDestroyed, inStore>>

\* a fetch callback of the store: the status property is set, nothing else
SetStatus(op, v, new) ==
    /\ Idle
    /\ inStore[v]
    /\ status' = [status EXCEPT ![v] = new]
    /\ lastFlush' = 0
    /\ ev' = [Ev(op, v) EXCEPT !.why = status[v]]
    /\ UNCHANGED <<config, viewState, stack, obsLeft, tally>>

\* a cancelled fetch that always falls back to EMPTY
storeDidCancelQuery_AlwaysEmpty(v) == SetStatus("storeDidCancelQuery", v, EMPTY)

\* storeWillFetchQuery(query)
storeWillFetchQuery(v) ==
    LET first == IF status[v] = EMPTY \/ status[v] = ERROR THEN BUSY_LOADING
                 ELSE status[v]
        second == IF hasREADY(first) THEN BUSY_REFRESH ELSE first
    IN  SetStatus("storeWillFetchQuery", v, second)

\* storeDidFetchQuery(query)
storeDidFetchQuery(v) == SetStatus("storeDidFetchQuery", v, READY_CLEAN)

\* storeDidCancelQuery(query)
storeDidCancelQuery(v) ==
    SetStatus("storeDidCancelQuery", v,
              IF status[v] = BUSY_LOADING THEN EMPTY
              ELSE IF status[v] = BUSY_REFRESH THEN READY_CLEAN
              ELSE status[v])

\* storeDidErrorQuery(query)
storeDidErrorQuery(v) == SetStatus("storeDidErrorQuery", v, ERROR)

\* a record array as it is created: dirty, enabled, never flushed, no
\* storeKeys, no batch
IsNew(v) ==
    /\ ~isDestroyed[v]
    /\ enabled[v]
    /\ needsFlush[v]
    /\ ~flushed[v]
    /\ storeKeys[v] = NullKeys
    /\ changed[v] = NoChanges

\* registerWithParents(): registerNestedRecordArray(this) on every scope
\* source.  The store calls it on a newly created record array.
registerWithParents(v) ==
    /\ IsNew(v)
    /\ Parents(v) # {}
    /\ Begin(<<Wrapper("registerWithParents", v)>>, "registerWithParents", v)
    /\ nested' = [p \in Views |->
                    IF p \in Parents(v)
                    THEN [created |-> TRUE, members |-> Kids(p) \cup {v}]
                    ELSE nested[p]]
    /\ UNCHANGED <<enabled, needsFlush, insideFlush, flushed, storeKeys, observed,
                   records, changed, isDestroyed, inStore>>

\* set('storeKeys', ks), as the store does with the results of a remote
\* query: propertyWillChange, then the observer _storeKeysDidChange, which
\* moves the array observers to the new array and calls
\* _storeKeysContentDidChange(0, oldLen, newLen)
storeKeysDidChange(v, ks) ==
    /\ ~IsLocal(v)
    /\ ~isDestroyed[v]
    /\ Begin(<<Wrapper("storeKeysDidChange", v)>>, "storeKeysDidChange", v)
    /\ storeKeys' = [storeKeys EXCEPT ![v] = ks]
    /\ observed' = [observed EXCEPT ![v] = TRUE]
    /\ records' = [records EXCEPT ![v] = NoRecords]
    /\ UNCHANGED <<enabled, needsFlush, insideFlush, flushed, changed, nested,
                   isDestroyed, inStore>>

\* ------------------------------------------------------------- flush
\* a flush without the needsFlush guard
flushReturnsEarly_NoDirtyGuard(v, force) == ~enabled[v] \/ insideFlush[v]

\* a flush without the _insideFlush guard
flushReturnsEarly_NoInsideGuard(v, force) == (~needsFlush[v] /\ ~force) \/ ~enabled[v]

\* flush(_flush), the early returns:
\*   if (!this.get('needsFlush') && !_flush) return this;
\*   if (!this.get('enabled')) return this;
\*   if (this._insideFlush) return this;
flushReturnsEarly(v, force) ==
    \/ ~needsFlush[v] /\ ~force
    \/ ~enabled[v]
    \/ insideFlush[v]

flushWhy(v, force) ==
    IF ~needsFlush[v] /\ ~force THEN "clean"
    ELSE IF ~enabled[v] THEN "disabled"
    ELSE "inside"

\* flush, up to the loop over the parents
FlushStart ==
    /\ Running
    /\ Top.op = "flush"
    /\ Top.pc = "start"
    /\ LET v == Top.v
       IN  IF flushReturnsEarly(v, Top.force)
           THEN /\ stack' = Pop
                /\ ev' = [Ev("flushSkip", v) EXCEPT !.why = flushWhy(v, Top.force)]
                /\ UNCHANGED <<needsFlush, insideFlush>>
           ELSE /\ needsFlush' = [needsFlush EXCEPT ![v] = FALSE]
                /\ IF ~store[v] \/ ~IsLocal(v)
                   THEN /\ stack' = Pop
                        /\ ev' = Ev("flushNotLocal", v)
                        /\ UNCHANGED insideFlush
                   ELSE /\ insideFlush' = [insideFlush EXCEPT ![v] = TRUE]
                        /\ stack' = SetTop([Top EXCEPT !.pc = "parents",
                                                       !.todo = query[v].scope])
                        /\ ev' = Ev("flushEnter", v)
    /\ UNCHANGED <<config, status, enabled, flushed, storeKeys, observed, records, changed,
                   nested, isDestroyed, inStore, obsLeft, lastFlush, tally>>

\* parents.forEach(scopeItem.source.flush())
FlushParent ==
    /\ Running
    /\ Top.op = "flush"
    /\ Top.pc = "parents"
    /\ Top.todo # <<>>
    /\ stack' = Append(SetTop([Top EXCEPT !.todo = Tail(@)]),
                       FlushFrame(Head(Top.todo), FALSE))
    /\ ev' = NoEv
    /\ UNCHANGED <<config, status, viewState, obsLeft, lastFlush, tally>>

\* if (this._scra_changedStoreKeys || !this._flushed)
needsMerge(v) == changed[v] # NoChanges \/ ~flushed[v]

\* the storeKeys handed to merge: _flush ? null : storeKeys
mergeOld(v, force) == IF force THEN NullKeys ELSE storeKeys[v]

\* what flush keeps of queryResult.added, .deleted and .updated: it reads
\* them only when there is a nestedRecordArrays set to pass them to
relevant(v, res) == IF nested[v].created THEN res.changes ELSE NoBatch

\* the wrapper of the public call counts the merges of its own view
CountMerge(v) ==
    [stack EXCEPT ![1].cnt = IF stack[1].v = v THEN Min(@ + 1, 2) ELSE @]

\* the rest of flush once the parents are flushed, up to the notification:
\* merge, the diff, the swap of storeKeys and _notifyStoreKeyChanges.
\* Observers run inside arrayContentDidChange, so the call is open to them
\* ("notified") when a range changed, and not ("merged") otherwise.
FlushMerge ==
    /\ Running
    /\ Top.op = "flush"
    /\ Top.pc = "parents"
    /\ Top.todo = <<>>
    /\ LET v == Top.v
       IN  IF needsMerge(v)
           THEN \E res \in merge(mergeOld(v, Top.force), changed[v]) :
                  LET range == findDifferences(storeKeys[v], res.storeKeys)
                  IN  /\ flushed' = [flushed EXCEPT ![v] = TRUE]
                      /\ changed' = [changed EXCEPT ![v] = NoChanges]
                      /\ IF range # NoRange
                         THEN /\ storeKeys' = [storeKeys EXCEPT ![v] = res.storeKeys]
                              /\ observed' = [observed EXCEPT ![v] = FALSE]
                              /\ records' = [records EXCEPT ![v] =
                                    invalidateRecords(@, range, Len(res.storeKeys))]
                              /\ ev' = [Ev("merge", v) EXCEPT !.note =
                                    notifyArgs(storeKeys[v], res.storeKeys, range)]
                              /\ stack' = [CountMerge(v) EXCEPT ![Depth] =
                                    [@ EXCEPT !.pc = "notified", !.qr = relevant(v, res),
                                               !.keys = res.storeKeys]]
                         ELSE /\ ev' = Ev("merge", v)
                              /\ stack' = [CountMerge(v) EXCEPT ![Depth] =
                                    [@ EXCEPT !.pc = "merged", !.qr = relevant(v, res),
                                               !.keys = res.storeKeys]]
                              /\ UNCHANGED <<storeKeys, observed, records>>
                      /\ UNCHANGED insideFlush
           ELSE /\ insideFlush' = [insideFlush EXCEPT ![v] = FALSE]
                /\ stack' = Pop
                /\ ev' = Ev("noMerge", v)
                /\ UNCHANGED <<flushed, storeKeys, observed, records, changed>>
    /\ UNCHANGED <<config, status, enabled, needsFlush, nested, isDestroyed, inStore,
                   obsLeft, lastFlush, tally>>

\* an observer of the content change calls back into a record array:
\* flush() (as every read does first) or reload()
FlushObserver(w, force) ==
    /\ Running
    /\ Top.op = "flush"
    /\ Top.pc = "notified"
    /\ obsLeft > 0
    /\ obsLeft' = obsLeft - 1
    /\ stack' = Append(stack, FlushFrame(w, force))
    /\ ev' = Ev("observer", w)
    /\ UNCHANGED <<config, status, viewState, lastFlush, tally>>

\* an end of flush that leaves the guard set
FlushForward_KeepsGuard ==
    /\ Running
    /\ Top.op = "flush"
    /\ Top.pc \in {"notified", "merged"}
    /\ changed' = parentDidChangeStoreKeys(changed, Top.v, Top.qr)
    /\ ev' = Ev("forward", Top.v)
    /\ stack' = Pop
    /\ UNCHANGED <<config, status, enabled, needsFlush, insideFlush, flushed, storeKeys,
                   observed, records, nested, isDestroyed, inStore, obsLeft, lastFlush,
                   tally>>

\* the end of flush after the merge: the nested arrays are told, the guard
\* is cleared
FlushForward ==
    /\ Running
    /\ Top.op = "flush"
    /\ Top.pc \in {"notified", "merged"}
    /\ LET v == Top.v
       IN  /\ changed' = parentDidChangeStoreKeys(changed, v, Top.qr)
           /\ insideFlush' = [insideFlush EXCEPT ![v] = FALSE]
           /\ ev' = Ev("forward", v)
    /\ stack' = Pop
    /\ UNCHANGED <<config, status, enabled, needsFlush, flushed, storeKeys, observed,
                   records, nested, isDestroyed, inStore, obsLeft, lastFlush, tally>>

\* ------------------------------------------------------------- flushFromLeafs
\* flushFromLeafs: with a nestedRecordArrays set, the same on each member;
\* without one, this.flush()
FlushFromLeafsStart ==
    /\ Running
    /\ Top.op = "flushFromLeafs"
    /\ Top.pc = "start"
    /\ stack' = IF nested[Top.v].created
                THEN SetTop([Top EXCEPT !.pc = "children", !.rest = nested[Top.v].members])
                ELSE SetTop(FlushFrame(Top.v, FALSE))
    /\ ev' = [Ev("flushFromLeafs", Top.v) EXCEPT
                 !.why = IF nested[Top.v].created THEN "nested" ELSE "leaf"]
    /\ UNCHANGED <<config, status, viewState, obsLeft, lastFlush, tally>>

\* nestedRecordArrays.invoke('flushFromLeafs'), one member
FlushFromLeafsChild(c) ==
    /\ Running
    /\ Top.op = "flushFromLeafs"
    /\ Top.pc = "children"
    /\ c \in Top.rest
    /\ stack' = Append(SetTop([Top EXCEPT !.rest = @ \ {c}]),
                       Frame("flushFromLeafs", c, "start"))
    /\ ev' = NoEv
    /\ UNCHANGED <<config, status, viewState, obsLeft, lastFlush, tally>>

FlushFromLeafsDone ==
    /\ Running
    /\ Top.op = "flushFromLeafs"
    /\ Top.pc = "children"
    /\ Top.rest = {}
    /\ stack' = Pop
    /\ ev' = NoEv
    /\ UNCHANGED <<config, status, viewState, obsLeft, lastFlush, tally>>

\* ------------------------------------------------------------- destroy
\* a destroy that tells its first scope source only
deregisterFromParents_FirstOnly(v) ==
    [p \in Views |->
        IF Parents(v) # {} /\ p = query[v].scope[1] /\ nested[p].created
        THEN [nested[p] EXCEPT !.members = @ \ {v}]
        ELSE nested[p]]

\* recordArrayWillDestroy(recordArray) on every scope source
deregisterFromParents(v) ==
    [p \in Views |->
        IF p \in Parents(v) /\ nested[p].created
        THEN [nested[p] EXCEPT !.members = @ \ {v}]
        ELSE nested[p]]

Bump(n) == Min(n + 1, 2)

\* a destroy that leaves the parents' sets alone before the children go
DestroyStart_KeepsParents ==
    /\ Running
    /\ Top.op = "destroy"
    /\ Top.pc = "start"
    /\ LET v == Top.v
       IN  IF isDestroyed[v]
           THEN /\ stack' = Pop
                /\ ev' = Ev("destroySkip", v)
                /\ UNCHANGED tally
           ELSE /\ tally' = [tally EXCEPT ![v].parentOut = Bump(@)]
                /\ stack' = SetTop([Top EXCEPT !.pc = "children",
                                               !.rest = Kids(v),
                                               !.idx = KLen(storeKeys[v])])
                /\ ev' = Ev("deregisterFromParents", v)
    /\ UNCHANGED <<config, status, viewState, obsLeft, lastFlush>>

\* a destroy without the isDestroyed guard
DestroyStart_Unguarded ==
    /\ Running
    /\ Top.op = "destroy"
    /\ Top.pc = "start"
    /\ nested' = deregisterFromParents(Top.v)
    /\ tally' = [tally EXCEPT ![Top.v].parentOut = Bump(@)]
    /\ stack' = SetTop([Top EXCEPT !.pc = "children",
                                   !.rest = Kids(Top.v),
                                   !.idx = KLen(storeKeys[Top.v])])
    /\ ev' = Ev("deregisterFromParents", Top.v)
    /\ UNCHANGED <<config, status, enabled, needsFlush, insideFlush, flushed, storeKeys,
                   observed, records, changed, isDestroyed, inStore, obsLeft,
                   lastFlush>>

\* destroy(), first part: nothing when isDestroyed; else the parents are
\* told, before anything else
DestroyStart ==
    /\ Running
    /\ Top.op = "destroy"
    /\ Top.pc = "start"
    /\ LET v == Top.v
       IN  IF isDestroyed[v]
           THEN /\ stack' = Pop
                /\ ev' = Ev("destroySkip", v)
                /\ UNCHANGED <<nested, tally>>
           ELSE /\ nested' = deregisterFromParents(v)
                /\ tally' = [tally EXCEPT ![v].parentOut = Bump(@)]
                /\ stack' = SetTop([Top EXCEPT !.pc = "children",
                                               !.rest = Kids(v),
                                               !.idx = KLen(storeKeys[v])])
                /\ ev' = Ev("deregisterFromParents", v)
    /\ UNCHANGED <<config, status, enabled, needsFlush, insideFlush, flushed, storeKeys,
                   observed, records, changed, isDestroyed, inStore, obsLeft,
                   lastFlush>>

\* nestedRecordArrays.invoke('destroy'), one member
DestroyChild(c) ==
    /\ Running
    /\ Top.op = "destroy"
    /\ Top.pc = "children"
    /\ c \in Top.rest
    /\ stack' = Append(SetTop([Top EXCEPT !.rest = @ \ {c}]),
                       Frame("destroy", c, "start"))
    /\ ev' = NoEv
    /\ UNCHANGED <<config, status, viewState, obsLeft, lastFlush, tally>>

\* destroy(), the rest: the store is told, the cache is emptied, the array
\* observers come off storeKeys, the final notification is sent when there
\* is a storeKeys array, and sc_super() sets isDestroyed
DestroyFinish ==
    /\ Running
    /\ Top.op = "destroy"
    /\ Top.pc = "children"
    /\ Top.rest = {}
    /\ LET v == Top.v
           has == storeKeys[v] # NullKeys
       IN  /\ inStore' = [inStore EXCEPT ![v] = FALSE]
           /\ records' = [records EXCEPT ![v] = NoRecords]
           /\ observed' = [observed EXCEPT ![v] = FALSE]
           /\ isDestroyed' = [isDestroyed EXCEPT ![v] = TRUE]
           /\ tally' = [tally EXCEPT ![v].storeOut = Bump(@),
                                     ![v].notes = IF has THEN Bump(@) ELSE @]
           /\ ev' = [Ev("destroyed", v) EXCEPT
                        !.note = IF has THEN <<0, Top.idx, 0>> ELSE <<>>]
    /\ stack' = Pop
    /\ UNCHANGED <<config, status, enabled, needsFlush, insideFlush, flushed, storeKeys,
                   changed, nested, obsLeft, lastFlush>>

\* ------------------------------------------------------------- reads and edits
\* objectAt(idx) after its flush
ObjectAtBody(idx) ==
    /\ Running
    /\ Top.op = "objectAt"
    /\ Top.pc = "body"
    /\ LET v == Top.v
           storeKey == At(storeKeys[v], idx)
       IN  IF storeKeys[v] = NullKeys \/ ~store[v]
           THEN /\ ev' = [Ev("objectAt", v) EXCEPT !.why = "undefined"]
                /\ UNCHANGED records
           ELSE IF records[v][idx + 1] # NoRecord
           THEN /\ ev' = [Ev("objectAt", v) EXCEPT !.why = "cached"]
                /\ UNCHANGED records
           ELSE IF storeKey # 0
           THEN /\ records' = [records EXCEPT ![v][idx + 1] = materializeRecord(storeKey)]
                /\ ev' = [Ev("objectAt", v) EXCEPT !.why = "materialized"]
           ELSE /\ ev' = [Ev("objectAt", v) EXCEPT !.why = "undefined"]
                /\ UNCHANGED records
    /\ stack' = SetTop([Top EXCEPT !.pc = "done", !.idx = idx])
    /\ UNCHANGED <<config, status, enabled, needsFlush, insideFlush, flushed, storeKeys,
                   observed, changed, nested, isDestroyed, inStore, obsLeft,
                   lastFlush, tally>>

\* forEach(callback) after its flush: every empty slot below the length is
\* materialized
ForEachBody ==
    /\ Running
    /\ Top.op = "forEach"
    /\ Top.pc = "body"
    /\ LET v == Top.v
       IN  IF storeKeys[v] = NullKeys \/ ~store[v]
           THEN UNCHANGED records
           ELSE records' = [records EXCEPT ![v] =
                   [i \in 1..MaxLen |->
                       IF i <= Len(storeKeys[v]) /\ @[i] = NoRecord
                       THEN materializeRecord(storeKeys[v][i])
                       ELSE @[i]]]
    /\ ev' = Ev("forEach", Top.v)
    /\ stack' = SetTop([Top EXCEPT !.pc = "done"])
    /\ UNCHANGED <<config, status, enabled, needsFlush, insideFlush, flushed, storeKeys,
                   observed, changed, nested, isDestroyed, inStore, obsLeft,
                   lastFlush, tally>>

\* Array.prototype.replace(idx, amt, keys) on the storeKeys array
splice(ks, idx, amt, keys) ==
    SubSeq(ks, 1, idx) \o keys \o SubSeq(ks, idx + amt + 1, Len(ks))

\* the edits offered to replace: within the array, and no longer than MaxLen
Edits(v) ==
    {<<idx, amt, keys>> \in (0..dims.len) \X (0..1) \X {ks \in LiveKeySeqs : Len(ks) <= 1} :
        /\ idx + amt <= KLen(storeKeys[v])
        /\ KLen(storeKeys[v]) - amt + Len(keys) <= dims.len}

\* a replace that does not ask isEditable
ReplaceBody_Unchecked(idx, amt, keys) ==
    /\ Running
    /\ Top.op = "replace"
    /\ Top.pc = "body"
    /\ <<idx, amt, keys>> \in Edits(Top.v)
    /\ LET v == Top.v
       IN  IF storeKeys[v] = NullKeys
           THEN /\ ev' = [Ev("throw", v) EXCEPT !.why = "no storeKeys"]
                /\ UNCHANGED <<storeKeys, records>>
           ELSE /\ storeKeys' = [storeKeys EXCEPT ![v] =
                                    splice(@, idx, amt, keys)]
                /\ IF observed[v]
                   THEN /\ records' = [records EXCEPT ![v] = NoRecords]
                        /\ ev' = [Ev("replace", v) EXCEPT
                                     !.note = <<idx, amt, Len(keys)>>]
                   ELSE /\ ev' = Ev("replace", v)
                        /\ UNCHANGED records
    /\ stack' = SetTop([Top EXCEPT !.pc = "done"])
    /\ UNCHANGED <<config, status, enabled, needsFlush, insideFlush, flushed, observed,
                   changed, nested, isDestroyed, inStore, obsLeft, lastFlush, tally>>

\* replace(idx, amt, recs) after its flush: throws without storeKeys or
\* when the query is not editable; else edits the storeKeys array in place.
\* Only an array that carries the array observers reports the edit back
\* (_storeKeysContentDidChange: the cache is dropped, the change notified).
ReplaceBody(idx, amt, keys) ==
    /\ Running
    /\ Top.op = "replace"
    /\ Top.pc = "body"
    /\ <<idx, amt, keys>> \in Edits(Top.v)
    /\ LET v == Top.v
       IN  IF storeKeys[v] = NullKeys
           THEN /\ ev' = [Ev("throw", v) EXCEPT !.why = "no storeKeys"]
                /\ UNCHANGED <<storeKeys, records>>
           ELSE IF ~query[v].isEditable
           THEN /\ ev' = [Ev("throw", v) EXCEPT !.why = "NOT_EDITABLE"]
                /\ UNCHANGED <<storeKeys, records>>
           ELSE /\ storeKeys' = [storeKeys EXCEPT ![v] =
                                    splice(@, idx, amt, keys)]
                /\ IF observed[v]
                   THEN /\ records' = [records EXCEPT ![v] = NoRecords]
                        /\ ev' = [Ev("replace", v) EXCEPT
                                     !.note = <<idx, amt, Len(keys)>>]
                   ELSE /\ ev' = Ev("replace", v)
                        /\ UNCHANGED records
    /\ stack' = SetTop([Top EXCEPT !.pc = "done"])
    /\ UNCHANGED <<config, status, enabled, needsFlush, insideFlush, flushed, observed,
                   changed, nested, isDestroyed, inStore, obsLeft, lastFlush, tally>>

\* ------------------------------------------------------------- the machine
\* what a call in progress does next
Step ==
    \/ Return
    \/ FlushStart
    \/ FlushParent
    \/ FlushMerge
    \/ \E w \in Live, force \in BOOLEAN : FlushObserver(w, force)
    \/ FlushForward
    \/ FlushFromLeafsStart
    \/ \E c \in Live : FlushFromLeafsChild(c)
    \/ FlushFromLeafsDone
    \/ DestroyStart
    \/ \E c \in Live : DestroyChild(c)
    \/ DestroyFinish

\* Spec: root record arrays of every location and editability, with
\* contents of DataKeys keys; every public call a root can receive
Init ==
    /\ dims = [views |-> DataViews, keys |-> DataKeys, len |-> DataLen]
    /\ query \in {[v \in Views |-> [scope |-> <<>>, location |-> loc, isEditable |-> ed]] :
                    loc \in {QueryLOCAL, QueryREMOTE}, ed \in BOOLEAN}
    /\ InitViews

Next ==
    \/ \E v \in Live : CallFlush(v)
    \/ \E v \in Live : CallReload(v)
    \/ \E v \in Live : CallLength(v)
    \/ \E v \in Live : CallObjectAt(v)
    \/ \E v \in Live : CallForEach(v)
    \/ \E v \in Live : CallReplace(v)
    \/ \E v \in Live : CallDestroy(v)
    \/ \E v \in Live : CallEnable(v)
    \/ \E v \in Live : CallDisable(v)
    \/ \E v \in Live, keys \in SUBSET ChangeKeys, match \in BOOLEAN :
          storeDidChangeStoreKeys(v, keys, match)
    \/ \E v \in Live, ks \in LiveKeySeqs : storeKeysDidChange(v, ks)
    \/ \E idx \in 0..(dims.len - 1) : ObjectAtBody(idx)
    \/ ForEachBody
    \/ \E e \in (0..MaxLen) \X (0..1) \X KeySeqs : ReplaceBody(e[1], e[2], e[3])
    \/ Return
    \/ FlushStart
    \/ FlushMerge
    \/ \E w \in Live, force \in BOOLEAN : FlushObserver(w, force)
    \/ FlushForward
    \/ FlushFromLeafsStart
    \/ DestroyStart
    \/ DestroyFinish

Spec == Init /\ [][Next]_vars

\* SpecTree: local record arrays, each scoped from the ones before it, with
\* contents of TreeKeys keys; the calls that concern the hierarchy
InitTree ==
    /\ dims = [views |-> TreeViews, keys |-> TreeKeys, len |-> TreeLen]
    /\ query \in QueriesOf(TreeViews, {QueryLOCAL}, {FALSE})
    /\ InitViews

NextTree ==
    \/ \E v \in Live : CallFlush(v)
    \/ \E v \in Live : CallReload(v)
    \/ \E v \in Live : CallLength(v)
    \/ \E v \in Live : CallDestroy(v)
    \/ \E v \in Live : CallEnable(v)
    \/ \E v \in Live : CallDisable(v)
    \/ \E v \in Live : CallFlushFromLeafs(v)
    \/ \E v \in Live, keys \in SUBSET ChangeKeys, match \in BOOLEAN :
          storeDidChangeStoreKeys(v, keys, match)
    \/ \E v \in Live : registerWithParents(v)
    \/ Step

SpecTree == InitTree /\ [][NextTree]_vars

\* SpecTreeLive: SpecTree with a run loop that keeps running the call in
\* progress (JavaScript runs a call to its end); the callers are free
SpecTreeLive == InitTree /\ [][NextTree]_vars /\ WF_vars(Step)

\* SpecDestroy: chains, fans and multi-parent trees of DestroyViews record
\* arrays; registration, reads and destroy
InitDestroy ==
    /\ dims = [views |-> DestroyViews, keys |-> TreeKeys, len |-> TreeLen]
    /\ query \in QueriesOf(DestroyViews, {QueryLOCAL}, {FALSE})
    /\ InitViews

NextDestroy ==
    \/ \E v \in Live : CallLength(v)
    \/ \E v \in Live : CallDestroy(v)
    \/ \E v \in Live : registerWithParents(v)
    \/ Return
    \/ FlushStart
    \/ FlushParent
    \/ FlushMerge
    \/ FlushForward
    \/ DestroyStart
    \/ \E c \in Live : DestroyChild(c)
    \/ DestroyFinish

SpecDestroy == InitDestroy /\ [][NextDestroy]_vars

\* SpecDiff: the diff of a flush on every pair of arrays.  One local record
\* array that has flushed before and holds any storeKeys (null, empty or up
\* to DiffLen keys) and a store batch; its flush merges to any array.
InitDiff ==
    /\ dims = [views |-> 1, keys |-> DiffKeys, len |-> DiffLen]
    /\ query = [v \in Views |-> [scope |-> <<>>, location |-> QueryLOCAL,
                                 isEditable |-> FALSE]]
    /\ store = [v \in Views |-> TRUE]
    /\ enabled = [v \in Views |-> TRUE]
    /\ needsFlush = [v \in Views |-> TRUE]
    /\ insideFlush = [v \in Views |-> FALSE]
    /\ flushed = [v \in Views |-> v = 1]
    /\ \E old \in {NullKeys} \cup LiveKeySeqs :
          storeKeys = [v \in Views |-> IF v = 1 THEN old ELSE NullKeys]
    /\ observed = [v \in Views |-> FALSE]
    /\ records = [v \in Views |-> NoRecords]
    /\ changed = [v \in Views |->
                    IF v = 1 THEN [NoChanges EXCEPT ![StoreGuid].updated = ChangeKeys]
                    ELSE NoChanges]
    /\ nested = [v \in Views |-> NoNested]
    /\ isDestroyed = [v \in Views |-> FALSE]
    /\ inStore = [v \in Views |-> TRUE]
    /\ stack = <<>>
    /\ obsLeft = MaxObserverCalls
    /\ lastFlush = 0
    /\ status = [v \in Views |-> EMPTY]
    /\ ev = NoEv
    /\ tally = [v \in Views |-> NoTally]

NextDiff ==
    \/ \E v \in Live : CallFlush(v)
    \/ \E v \in Live, keys \in SUBSET ChangeKeys, match \in BOOLEAN :
          storeDidChangeStoreKeys(v, keys, match)
    \/ Return
    \/ FlushStart
    \/ FlushMerge
    \/ FlushForward

SpecDiff == InitDiff /\ [][NextDiff]_vars

\* SpecStatus: the fetch callbacks of the store among flushes, reloads,
\* enable, disable and change notifications, on root record arrays of both
\* locations
InitStatus ==
    /\ dims = [views |-> DataViews, keys |-> TreeKeys, len |-> TreeLen]
    /\ query \in {[v \in Views |-> [scope |-> <<>>, location |-> loc, isEditable |-> FALSE]] :
                    loc \in {QueryLOCAL, QueryREMOTE}}
    /\ InitViews

NextStatus ==
    \/ \E v \in Live : storeWillFetchQuery(v)
    \/ \E v \in Live : storeDidFetchQuery(v)
    \/ \E v \in Live : storeDidCancelQuery(v)
    \/ \E v \in Live : storeDidErrorQuery(v)
    \/ \E v \in Live : CallFlush(v)
    \/ \E v \in Live : CallReload(v)
    \/ \E v \in Live : CallEnable(v)
    \/ \E v \in Live : CallDisable(v)
    \/ \E v \in Live, keys \in SUBSET ChangeKeys, match \in BOOLEAN :
          storeDidChangeStoreKeys(v, keys, match)
    \/ \E v \in Live, ks \in LiveKeySeqs : storeKeysDidChange(v, ks)
    \/ Return
    \/ FlushStart
    \/ FlushMerge
    \/ FlushForward
    \/ FlushFromLeafsStart

SpecStatus == InitStatus /\ [][NextStatus]_vars

\* SpecNoStore: root record arrays created with and without a store, and
\* their first uses.  A record array without a store is in no store's list.
InitNoStore ==
    /\ dims = [views |-> DataViews, keys |-> DataKeys, len |-> DataLen]
    /\ query \in {[v \in Views |-> [scope |-> <<>>, location |-> loc, isEditable |-> FALSE]] :
                    loc \in {QueryLOCAL, QueryREMOTE}}
    /\ store \in {[v \in Views |-> has] : has \in BOOLEAN}
    /\ inStore = store
    /\ enabled = [v \in Views |-> TRUE]
    /\ needsFlush = [v \in Views |-> TRUE]
    /\ insideFlush = [v \in Views |-> FALSE]
    /\ flushed = [v \in Views |-> FALSE]
    /\ storeKeys = [v \in Views |-> NullKeys]
    /\ observed = [v \in Views |-> FALSE]
    /\ records = [v \in Views |-> NoRecords]
    /\ changed = [v \in Views |-> NoChanges]
    /\ nested = [v \in Views |-> NoNested]
    /\ isDestroyed = [v \in Views |-> FALSE]
    /\ stack = <<>>
    /\ obsLeft = MaxObserverCalls
    /\ lastFlush = 0
    /\ status = [v \in Views |-> EMPTY]
    /\ ev = NoEv
    /\ tally = [v \in Views |-> NoTally]

NextNoStore ==
    \/ \E v \in Live : CallFlush(v)
    \/ \E v \in Live : CallLength(v)
    \/ \E v \in Live : CallObjectAt(v)
    \/ \E v \in Live : CallForEach(v)
    \/ \E v \in Live, keys \in SUBSET ChangeKeys, match \in BOOLEAN :
          storeDidChangeStoreKeys(v, keys, match)
    \/ \E idx \in 0..(dims.len - 1) : ObjectAtBody(idx)
    \/ ForEachBody
    \/ Return
    \/ FlushStart
    \/ FlushMerge
    \/ FlushForward

SpecNoStore == InitNoStore /\ [][NextNoStore]_vars

\* SpecBatch: a parent and its child, store notifications that name up to
\* NBatchKeys keys, and the flushes that forward and consume the batches
InitBatch ==
    /\ dims = [views |-> TreeViews, keys |-> TreeKeys, len |-> TreeLen]
    /\ query \in QueriesOf(TreeViews, {QueryLOCAL}, {FALSE})
    /\ InitViews

NextBatch ==
    \/ \E v \in Live, keys \in SUBSET (1..NBatchKeys), match \in BOOLEAN :
          storeDidChangeStoreKeys(v, keys, match)
    \/ \E v \in Live : registerWithParents(v)
    \/ \E v \in Live : CallFlush(v)
    \/ Return
    \/ FlushStart
    \/ FlushParent
    \/ FlushMerge
    \/ FlushForward

SpecBatch == InitBatch /\ [][NextBatch]_vars

\* ------------------------------------------------------------- claims
\* a flush() is running (or has just returned) right after a flush() of the
\* same record array returned, with no other public call in between
Repeated == Running /\ stack[1].op = "flush()" /\ stack[1].v = lastFlush

\* C1: a flush() that directly follows a flush() of the same record array
\* is a no-op: no step of it changes anything the record arrays hold (no
\* merge, no new storeKeys, no cache change, no guard taken) and none sends
\* a content-changed notification.
C1_FlushIdempotent ==
    [][Repeated' =>
          /\ viewState' = viewState
          /\ ev'.type # "merge"
          /\ ev'.note = <<>>]_vars

\* the second flush() has returned, after a first one that did real work
C1_Witness ==
    /\ Repeated
    /\ Depth = 1
    /\ Top.pc = "done"
    /\ ev.type = "flushSkip"
    /\ ev.why = "clean"
    /\ storeKeys[lastFlush] # NullKeys
    /\ Len(storeKeys[lastFlush]) > 0

\* the step just taken ran merge in a flush
Merged == ev.type = "merge"

C3_CacheNeverStale ==
    \A v \in Live : \A i \in 1..MaxLen :
        records[v][i] # NoRecord =>
            /\ i <= KLen(storeKeys[v])
            /\ records[v][i] = materializeRecord(storeKeys[v][i])

\* a replace() has edited the storeKeys that a flush put in place, and the
\* cache still holds the record of the key that was at the index before
C3_Witness ==
    /\ ev.type = "replace"
    /\ ev.note = <<>>
    /\ ~observed[ev.v]
    /\ \E i \in 1..Len(storeKeys[ev.v]) :
          /\ records[ev.v][i] # NoRecord
          /\ records[ev.v][i] # materializeRecord(storeKeys[ev.v][i])

\* a flush of a registered child has just returned at the needsFlush guard
\* although a batch forwarded by a parent is pending
C4_Witness ==
    /\ ev.type = "flushSkip"
    /\ ev.why = "clean"
    /\ Depth = 1
    /\ Top.op = "flush()"
    /\ enabled[ev.v]
    /\ \E p \in Parents(ev.v) : ev.v \in Kids(p) /\ ~BatchIsEmpty(changed[ev.v][p])

\* C4: when a flush of P has merged and the merge returned sets that are not
\* all empty, every registered child C holds them in its batch of origin P,
\* unioned with what P forwarded before; and the next flush of C hands them
\* to merge: a merge of C consumes all its batches, and no flush of C returns
\* as clean while a batch of a parent is pending.
C4_ChildReceivesParentBatch ==
    [][/\ ev'.type = "forward" /\ ~BatchIsEmpty(Top.qr) =>
             \A c \in Kids(Top.v) :
                 changed'[c][Top.v] = BatchUnion(changed[c][Top.v], Top.qr)
       /\ ev'.type = "merge" => changed'[ev'.v] = NoChanges
       /\ ev'.type = "flushSkip" /\ ev'.why = "clean" =>
             \A p \in Parents(ev'.v) : BatchIsEmpty(changed[ev'.v][p])]_vars

\* enable() has returned on a view that was disabled and held a batch of
\* store changes
EnableReturned ==
    /\ Depth = 1
    /\ Top.op = "enable()"
    /\ Top.pc = "done"
    /\ Top.pre
    /\ ~BatchIsEmpty(Top.qr)

\* C5: when enable() returns on a view that was disabled and had changes
\* pending, the view was flushed exactly once (one merge), is not dirty and
\* holds no pending batch.
C5_EnableCatchesUp ==
    EnableReturned =>
        /\ Top.cnt = 1
        /\ ~needsFlush[Top.v]
        /\ changed[Top.v] = NoChanges

\* enable() has returned without any flush of the view: it is still dirty
\* and still holds the store's batch
C5_Witness ==
    /\ EnableReturned
    /\ Top.cnt = 0
    /\ needsFlush[Top.v]
    /\ changed[Top.v][StoreGuid] = Top.qr

\* a flush call on a disabled view is about to run
DisabledFlush == Running /\ Top.op = "flush" /\ ~enabled[Top.v]

\* the store has just reported keys a disabled local view accepts
DisabledAccepts ==
    /\ Depth = 1
    /\ Top.op = "storeDidChangeStoreKeys"
    /\ ~enabled[Top.v]
    /\ IsLocal(Top.v)
    /\ Top.pre
    /\ Top.rest # {}

\* C6: while a view is disabled no flush of it (flush(), reload(), a read)
\* merges, replaces storeKeys, touches the cache or notifies; a store
\* notification it accepts meanwhile is added to its store batch and sets
\* needsFlush, and so does a batch a parent forwards to it.
C6_DisabledSuppressesFlush ==
    [][/\ DisabledFlush =>
             /\ ev'.type = "flushSkip"
             /\ ev'.note = <<>>
             /\ <<storeKeys', records', changed', flushed', needsFlush'>> =
                   <<storeKeys, records, changed, flushed, needsFlush>>
       /\ ev'.type = "merge" => enabled[ev'.v]
       /\ DisabledAccepts' =>
             /\ needsFlush'[Top'.v]
             /\ Top'.rest \subseteq changed'[Top'.v][StoreGuid].updated
       /\ ev'.type = "forward" /\ ~BatchIsEmpty(Top.qr) =>
             \A c \in Kids(Top.v) :
                 ~enabled[c] =>
                     /\ changed'[c][Top.v] = BatchUnion(changed[c][Top.v], Top.qr)
                     /\ needsFlush'[c]]_vars

\* a disabled child has just received a batch from its parent and is not
\* dirty
C6_Witness ==
    /\ ev.type = "forward"
    /\ \E c \in Kids(ev.v) :
          /\ ~enabled[c]
          /\ ~needsFlush[c]
          /\ ~BatchIsEmpty(changed[c][ev.v])

\* a flush is called on a view whose flush is in progress
Reentered == Running /\ Top.op = "flush" /\ Top.pc = "start" /\ insideFlush[Top.v]

\* the flush calls of v that are past the guards
ActiveFlushes(v) ==
    {i \in 1..Depth : stack[i].op = "flush" /\ stack[i].v = v /\ stack[i].pc # "start"}

\* C7: a flush (forced or not) called on a view while a flush of that view
\* is in progress returns at once: no merge, storeKeys, needsFlush and all
\* else the views hold unchanged.  So at most one flush per view is past the
\* guards at any time, and a flush call merges only from there, once.
C7_ReentrantFlushReturns ==
    [][/\ Reentered =>
             /\ ev'.type = "flushSkip"
             /\ stack' = Pop
             /\ viewState' = viewState
       /\ ev'.type = "merge" =>
             /\ Top.pc = "parents"
             /\ stack'[Depth].pc \in {"notified", "merged"}
       /\ \A v \in Live : Cardinality(ActiveFlushes(v)') <= 1]_vars

\* a forced flush, called by an observer while the view was flushing, has
\* just returned at the guard
C7_Witness ==
    /\ ev.type = "flushSkip"
    /\ ev.why = "inside"
    /\ Running
    /\ Top.op = "flush"
    /\ Top.v = ev.v
    /\ Top.pc = "notified"
    /\ insideFlush[ev.v]

\* C8 (as stated): when destroy() of a view with registered children and
\* parent scopes deregisters the view from its parents, every registered
\* child is destroyed already.
C8_ChildrenBeforeParents ==
    ev.type = "deregisterFromParents" /\ Parents(ev.v) # {} =>
        \A c \in Kids(ev.v) : isDestroyed[c]

\* C8 (amended): destroy() deregisters the view from every parent first:
\* when it destroys a registered child no parent lists the view any more;
\* and every child is destroyed and gone from the view's set before the
\* store is told and the final notification is sent.
C8_ParentsBeforeChildren ==
    [][/\ Running /\ Top.op = "destroy" /\ Top.pc = "children" /\ Depth' = Depth + 1 =>
             \A p \in Parents(Top.v) : Top.v \notin Kids(p)
       /\ ev'.type = "destroyed" =>
             /\ \A c \in Kids(ev'.v) : isDestroyed[c]
             /\ \A p \in Parents(ev'.v) : ev'.v \notin Kids(p)]_vars

\* the destroy of a child is starting, called by the destroy of a view that
\* a parent listed
C8_Witness ==
    /\ Depth >= 3
    /\ Top.op = "destroy"
    /\ Top.pc = "start"
    /\ ~isDestroyed[Top.v]
    /\ stack[Depth - 1].op = "destroy"
    /\ Parents(stack[Depth - 1].v) # {}
    /\ \A p \in Parents(stack[Depth - 1].v) : nested[p].created
    /\ tally[stack[Depth - 1].v].parentOut = 1

\* destroy() is called on a destroyed view
DestroyedAgain == Running /\ Top.op = "destroy" /\ Top.pc = "start" /\ isDestroyed[Top.v]

\* C9 (as stated): a destroy() of a destroyed view changes nothing and
\* notifies nothing; every destroyed view has deregistered from its parents
\* and from the store exactly once and has sent exactly one final
\* notification.
C9_ExactlyOnce ==
    [][/\ DestroyedAgain =>
             /\ ev'.type = "destroySkip"
             /\ ev'.note = <<>>
             /\ viewState' = viewState
             /\ tally' = tally
       /\ \A v \in Live :
             isDestroyed'[v] =>
                 tally'[v] = [notes |-> 1, storeOut |-> 1, parentOut |-> 1]]_vars

\* C9 (amended): a destroy() of a destroyed view changes nothing and
\* notifies nothing; every destroyed view has deregistered from its parents
\* and from the store exactly once; the final notification is sent once by
\* a view that holds a storeKeys array when destroyed, and never by one that
\* holds none.
C9_DestroyIdempotent ==
    [][/\ DestroyedAgain =>
             /\ ev'.type = "destroySkip"
             /\ ev'.note = <<>>
             /\ viewState' = viewState
             /\ tally' = tally
       /\ \A v \in Live :
             isDestroyed'[v] => tally'[v].storeOut = 1 /\ tally'[v].parentOut = 1
       /\ ev'.type = "destroyed" =>
             tally'[ev'.v].notes = IF storeKeys[ev'.v] # NullKeys THEN 1 ELSE 0
       /\ ev'.type # "destroyed" => \A v \in Live : tally'[v].notes = tally[v].notes]_vars

\* a second destroy() of a view that sent its final notification has just
\* returned at the guard
C9_Witness ==
    /\ ev.type = "destroySkip"
    /\ Depth = 1
    /\ Top.op = "destroy()"
    /\ Top.pre
    /\ tally[ev.v] = [notes |-> 1, storeOut |-> 1, parentOut |-> 1]

\* C10: the destroy() of a view that holds a storeKeys array of length n
\* sends the final notification (0, n, 0) and leaves the cache empty, and
\* the storeKeys are released: a length read after destroy() returns 0.
C10_DestroyReleasesData ==
    /\ ev.type = "destroyed" /\ storeKeys[ev.v] # NullKeys =>
          /\ ev.note = <<0, stack[1].idx, 0>>
          /\ records[ev.v] = NoRecords
    /\ Depth = 1 /\ Top.op = "length" /\ Top.pc = "done" /\ isDestroyed[Top.v] =>
          KLen(storeKeys[Top.v]) = 0

\* a length read of a destroyed view that has sent its final notification
\* has returned the full length
C10_Witness ==
    /\ Depth = 1
    /\ Top.op = "length"
    /\ Top.pc = "done"
    /\ isDestroyed[Top.v]
    /\ tally[Top.v].notes = 1
    /\ KLen(storeKeys[Top.v]) = DataLen

\* the arrays a merge step diffed: the storeKeys the view held, and the
\* storeKeys merge returned
DiffOld == storeKeys[ev'.v]
DiffNew == stack'[Depth].keys

\* the same length and the same key at every index; null counts as empty
SameKeys(old, new) ==
    /\ KLen(old) = KLen(new)
    /\ \A i \in 0..(KLen(old) - 1) : At(old, i) = At(new, i)

\* C11: the diff of a flush returns no range exactly when the old and the
\* new storeKeys have the same length and the same key at every index; a
\* null or empty old array against a non-empty new one gives the full range
\* [0, len(new)), and against an empty new one no range.
C11_DiffNoneIffEqual ==
    [][Merged' =>
          LET range == findDifferences(DiffOld, DiffNew)
          IN  /\ range = NoRange <=> SameKeys(DiffOld, DiffNew)
              /\ (range = NoRange) = (ev'.note = <<>>)
              /\ KLen(DiffOld) = 0 /\ Len(DiffNew) > 0 => range = <<0, Len(DiffNew)>>
              /\ KLen(DiffOld) = 0 /\ Len(DiffNew) = 0 => range = NoRange]_vars

\* a merge has just answered the array the view already held, of full
\* length, and the flush sent no notification
C11_Witness ==
    /\ Merged
    /\ Top.pc = "merged"
    /\ Top.keys = storeKeys[ev.v]
    /\ Len(Top.keys) = DiffLen
    /\ ev.note = <<>>

\* a copy of old with the positions of the range replaced by the keys new
\* holds at the positions of the range
Patch(old, new, range) ==
    LET a == IF old = NullKeys THEN <<>> ELSE old
        lo == range[1]
        hi == range[1] + range[2]
        Part(ks, from, to) ==
            [i \in 1..(Max(Min(to, Len(ks)) - from, 0)) |-> ks[from + i]]
    IN  Part(a, 0, lo) \o Part(new, lo, hi) \o Part(a, hi, Len(a))

\* C12: when the old and the new storeKeys of a flush differ, the range the
\* diff returns, used to splice the new array's slice into a copy of the old
\* array at that range, reproduces the new array.
C12_SpliceRoundTrip ==
    [][Merged' /\ ~SameKeys(DiffOld, DiffNew) =>
          Patch(DiffOld, DiffNew, findDifferences(DiffOld, DiffNew)) = DiffNew]_vars

\* a flush has just replaced an array by a shorter one that differs from it
\* below the new length
C12_Witness ==
    /\ Merged
    /\ ev.note # <<>>
    /\ ev.note[2] > ev.note[3]
    /\ ev.note[3] > 0

\* C13: a flush that found a changed range empties the cache slots inside
\* the range and keeps, below the new length, every slot outside it; a read
\* of an empty slot materializes the record of the key now at the index,
\* and a read of a filled slot returns the cached record without asking the
\* store and leaves the cache alone.
C13_CacheInvalidationRangeLimited ==
    [][/\ Merged' /\ ev'.note # <<>> =>
             LET v == ev'.v
                 range == findDifferences(DiffOld, DiffNew)
             IN  \A i \in 0..(MaxLen - 1) :
                    IF InRange(range, i)
                    THEN records'[v][i + 1] = NoRecord
                    ELSE i < Len(DiffNew) => records'[v][i + 1] = records[v][i + 1]
       /\ ev'.type = "objectAt" /\ storeKeys[ev'.v] # NullKeys /\ store[ev'.v] =>
             LET v == ev'.v
                 idx == stack'[Depth].idx
             IN  IF records[v][idx + 1] = NoRecord
                 THEN /\ ev'.why # "cached"
                      /\ At(storeKeys[v], idx) # 0 =>
                            /\ ev'.why = "materialized"
                            /\ records'[v][idx + 1] = materializeRecord(At(storeKeys[v], idx))
                 ELSE /\ ev'.why = "cached"
                      /\ records' = records]_vars

\* a flush has just changed the array from index 1 on while the record at
\* index 0 stays cached
C13_Witness ==
    /\ Merged
    /\ ev.note # <<>>
    /\ ev.note[1] = 1
    /\ Len(storeKeys[ev.v]) = 2
    /\ records[ev.v][1] # NoRecord
    /\ records[ev.v][2] = NoRecord

Statuses == {EMPTY, BUSY_LOADING, BUSY_REFRESH, READY_CLEAN, ERROR}

\* the status a fetch callback leaves, by the status it found
AfterFetch(op, s) ==
    CASE op = "storeWillFetchQuery" ->
            IF s \in {EMPTY, ERROR} THEN BUSY_LOADING
            ELSE IF s = READY_CLEAN THEN BUSY_REFRESH
            ELSE s
      [] op = "storeDidFetchQuery" -> READY_CLEAN
      [] op = "storeDidCancelQuery" ->
            IF s = BUSY_LOADING THEN EMPTY
            ELSE IF s = BUSY_REFRESH THEN READY_CLEAN
            ELSE s
      [] op = "storeDidErrorQuery" -> ERROR
      [] OTHER -> s

\* C14: the status of a record array starts as EMPTY, is always one of
\* EMPTY, BUSY_LOADING, BUSY_REFRESH, READY_CLEAN and ERROR, and changes
\* only in the four fetch callbacks, each by its table: fetch started takes
\* EMPTY and ERROR to BUSY_LOADING and READY_CLEAN to BUSY_REFRESH, fetch
\* completed gives READY_CLEAN, fetch cancelled takes BUSY_LOADING to EMPTY
\* and BUSY_REFRESH to READY_CLEAN, fetch errored gives ERROR.  No step of
\* a flush, reload, enable, disable or change notification alters it.
C14_StatusStateMachine ==
    [][\A v \in Views :
          /\ status[v] \in Statuses
          /\ status'[v] \in Statuses
          /\ status'[v] = IF ev'.v = v THEN AfterFetch(ev'.type, status[v])
                          ELSE status[v]]_vars

\* a cancelled fetch has just taken a refreshing record array that holds
\* storeKeys back to READY_CLEAN
C14_Witness ==
    /\ ev.type = "storeDidCancelQuery"
    /\ ev.why = BUSY_REFRESH
    /\ status[ev.v] = READY_CLEAN
    /\ storeKeys[ev.v] # NullKeys
    /\ flushed[ev.v]

\* a reload() of an enabled record array with a store and a local query has
\* returned
ReloadReturned ==
    /\ Depth = 1
    /\ Top.op = "reload()"
    /\ Top.pc = "done"
    /\ enabled[Top.v]
    /\ store[Top.v]
    /\ IsLocal(Top.v)

\* C15: every reload() of an enabled record array with a store and a local
\* query, called while no flush of it is in progress, has run merge exactly
\* once when it returns, whether or not the record array was dirty, held a
\* batch or had flushed before.
C15_ReloadMergesOnce == ReloadReturned => Top.cnt = 1

\* a reload() of a record array that held storeKeys has returned after one
\* merge
C15_Witness ==
    /\ ReloadReturned
    /\ Top.cnt = 1
    /\ storeKeys[Top.v] # NullKeys
    /\ ev.type = "forward"

\* a read of an enabled record array with a store and a local query has
\* returned
ReadReturned ==
    /\ Depth = 1
    /\ Top.op \in {"length", "objectAt", "forEach"}
    /\ Top.pc = "done"
    /\ enabled[Top.v]
    /\ store[Top.v]
    /\ IsLocal(Top.v)

\* C16: when a read (length, objectAt, forEach, indexOf, lastIndexOf) of an
\* enabled local record array returns, no batch, from the store or from a
\* parent, is still pending on it: all have been handed to merge.
C16_ReadsSeePendingChanges == ReadReturned => changed[Top.v] = NoChanges

\* a read of a registered child has returned after merging the child
C16_Witness ==
    /\ ReadReturned
    /\ Top.cnt = 1
    /\ Parents(Top.v) # {}
    /\ Top.v \in Kids(1)
    /\ flushed[1]
    /\ changed[Top.v] = NoChanges

\* the step just taken is the body of a replace() on a record array whose
\* query is not editable
ReplacedNotEditable == ev.type \in {"throw", "replace"} /\ ~query[ev.v].isEditable

\* C17 (as stated): a replace on a record array whose query forbids edits
\* throws NOT_EDITABLE; the body changes nothing the record array holds (the
\* storeKeys stay what the flush of the call left) and sends no
\* notification.
C17_ThrowsNotEditable ==
    [][ReplacedNotEditable' =>
          /\ ev'.type = "throw"
          /\ ev'.why = "NOT_EDITABLE"
          /\ viewState' = viewState
          /\ ~insideFlush'[ev'.v]
          /\ ev'.note = <<>>]_vars

\* C17 (amended): a replace on a record array whose query forbids edits
\* throws: NOT_EDITABLE when the record array holds a storeKeys array, the
\* missing-storeKeys error when it holds none; either way the body changes
\* nothing the record array holds, leaves no guard set and sends no
\* notification.
C17_ThrowsWithoutEdit ==
    [][ReplacedNotEditable' =>
          /\ ev'.type = "throw"
          /\ ev'.why = IF storeKeys[ev'.v] = NullKeys THEN "no storeKeys"
                       ELSE "NOT_EDITABLE"
          /\ viewState' = viewState
          /\ ~insideFlush'[ev'.v]
          /\ ev'.note = <<>>]_vars

\* a replace of a record array that is not editable has just thrown
\* NOT_EDITABLE, after the flush of the call merged to a full array
C17_Witness ==
    /\ ReplacedNotEditable
    /\ ev.why = "NOT_EDITABLE"
    /\ Depth = 1
    /\ Top.op = "replace"
    /\ Top.cnt = 1
    /\ Len(storeKeys[ev.v]) = DataLen

\* a flush(), length, objectAt or forEach of a record array created without
\* a store has come to its end
UsedWithoutStore ==
    /\ Depth = 1
    /\ Top.op \in {"flush()", "length", "objectAt", "forEach"}
    /\ Top.pc = "done"
    /\ ~store[Top.v]

\* C18: a record array created without a store raises an error at its
\* first use: a flush(), length, objectAt or forEach of it ends in a throw,
\* not in a normal return.
C18_MisconfiguredFailsFast == UsedWithoutStore => ev.type = "throw"

\* an objectAt of a record array without a store has returned undefined
C18_Witness ==
    /\ UsedWithoutStore
    /\ Top.op = "objectAt"
    /\ ev.type = "objectAt"
    /\ ev.why = "undefined"
    /\ ~needsFlush[Top.v]

\* the record array has completed its own reconciliation
Current(p) == ~needsFlush[p] /\ changed[p] = NoChanges /\ ~insideFlush[p]

\* C19: whenever a record array runs merge in a flush, every parent it is
\* scoped from is current: not dirty, without a pending batch and not in
\* the middle of a flush of its own.
C19_ParentsCurrentBeforeMerge ==
    [][Merged' => \A p \in Parents(ev'.v) : Current(p)]_vars

\* a child has just merged after its flush brought its parent up to date
C19_Witness ==
    /\ Merged
    /\ Parents(ev.v) # {}
    /\ \A p \in Parents(ev.v) : Current(p) /\ flushed[p] /\ storeKeys[p] # NullKeys
    /\ stack[1].v = ev.v
    /\ Depth = 2

\* the step just taken is a storeDidChangeStoreKeys that the record array
\* accepted: local query, matching record types, at least one key
StoreAccepted ==
    /\ ev.type = "call"
    /\ stack[1].op = "storeDidChangeStoreKeys"
    /\ IsLocal(ev.v)
    /\ stack[1].pre
    /\ stack[1].rest # {}

\* the record array is in a flush of its own that has yet to reach its
\* merge (it is flushing its parents): the merge to come takes its batches
AboutToMerge(w) ==
    \E i \in 1..Depth :
        stack[i].op = "flush" /\ stack[i].v = w /\ stack[i].pc = "parents"

\* C20: whenever a record array records a non-empty change notification,
\* from the store or from a parent that forwards the sets of its merge, it
\* is left with needsFlush = YES, and so is every record array reachable
\* from it through nestedRecordArrays.  (A receiver whose own flush is
\* under way and yet to merge is not counted: that flush has cleared its
\* needsFlush and hands the batch to merge next.)
C20_DirtyOnEveryNotification ==
    [][/\ StoreAccepted' => \A w \in Reach({ev'.v}) : needsFlush'[w]
       /\ ev'.type = "forward" /\ ~BatchIsEmpty(Top.qr) =>
             \A c \in Kids(ev'.v) : \A w \in Reach({c}) :
                needsFlush'[w] \/ AboutToMerge(w)]_vars

\* a store notification has just marked a flushed parent and its flushed
\* child dirty
C20_Witness ==
    /\ StoreAccepted
    /\ ev.v = 1
    /\ 2 \in Kids(1)
    /\ flushed[1]
    /\ flushed[2]
    /\ needsFlush[1]
    /\ needsFlush[2]
    /\ changed[2] = NoChanges

\* no flush call is on the stack
NoFlushInProgress == \A i \in 1..Depth : stack[i].op # "flush"

\* C21: whenever no flush is in progress, every record array that holds a
\* pending batch has needsFlush = YES: no batch is stranded behind a clean
\* flag.
C21_NoOrphanedBatch ==
    NoFlushInProgress =>
        \A v \in Live : changed[v] # NoChanges => needsFlush[v]

\* a flushed, clean child has been marked dirty by a store notification it
\* recorded, with no call in progress but the notification
C21_Witness ==
    /\ NoFlushInProgress
    /\ StoreAccepted
    /\ ev.v = 2
    /\ flushed[2]
    /\ changed[2] # NoChanges
    /\ needsFlush[2]

\* C22: flushFromLeafs on a record array that has no registered children at
\* the moment invokes flush on it, also when children were registered before
\* and have since been destroyed; on a record array with registered
\* children it goes on to every one of them, so that every leaf of the
\* registered tree is flushed.
C22_FlushFromLeafsReachesLeaves ==
    [][ev'.type = "flushFromLeafs" =>
          LET v == ev'.v
              top == stack'[Depth]
          IN  IF Kids(v) = {}
              THEN top.op = "flush" /\ top.v = v /\ top.pc = "start"
              ELSE top.op = "flushFromLeafs" /\ top.pc = "children" /\ top.rest = Kids(v)]_vars

\* flushFromLeafs() of a parent has just reached its registered child, a
\* leaf, and invoked flush on it
C22_Witness ==
    /\ ev.type = "flushFromLeafs"
    /\ ev.why = "leaf"
    /\ Depth = 3
    /\ stack[1].op = "flushFromLeafs()"
    /\ stack[2].op = "flushFromLeafs"
    /\ stack[2].v = stack[1].v
    /\ Top.op = "flush"
    /\ Top.v \in Kids(stack[1].v)

\* the arrays differ at the index: the keys differ, or only one of the
\* arrays has the index
DiffersAt(old, new, i) == At(old, i) # At(new, i)

\* C23: when the old and the new storeKeys of a flush differ, the range the
\* diff returns contains every index below the longer length at which they
\* differ, and its first and its last index are indexes at which they
\* differ.
C23_DiffCoversAndIsMinimal ==
    [][Merged' /\ ~SameKeys(DiffOld, DiffNew) =>
          LET range == findDifferences(DiffOld, DiffNew)
              first == range[1]
              last == range[1] + range[2] - 1
          IN  /\ range # NoRange
              /\ range[2] > 0
              /\ \A i \in 0..(Max(KLen(DiffOld), Len(DiffNew)) - 1) :
                    DiffersAt(DiffOld, DiffNew, i) => InRange(range, i)
              /\ DiffersAt(DiffOld, DiffNew, first)
              /\ DiffersAt(DiffOld, DiffNew, last)]_vars

\* a flush has just replaced an array of full length by another of full
\* length that differs from it from index 1 on
C23_Witness ==
    /\ Merged
    /\ ev.note = <<1, DiffLen - 1, DiffLen - 1>>
    /\ Len(storeKeys[ev.v]) = DiffLen
    /\ dims.len = DiffLen

\* every set of batch a holds the keys of the same set of batch b
BatchWithin(b, a) ==
    b.added \subseteq a.added /\ b.deleted \subseteq a.deleted /\ b.updated \subseteq a.updated

\* C24: batches accumulate per origin by union.  An accepted store
\* notification adds its keys to the updated set of the store's batch and
\* touches nothing else; a parent that forwards non-empty sets adds them,
\* set by set, to the batch of its own origin on each registered child and
\* touches no other batch; forwarded sets that are all empty change
\* nothing; and no step but the merge that consumes them removes a key
\* from any batch.
C24_BatchesAccumulateByUnion ==
    [][/\ StoreAccepted' =>
             changed' = [changed EXCEPT ![ev'.v][StoreGuid].updated = @ \cup stack'[1].rest]
       /\ ev'.type = "call" /\ ~StoreAccepted' => changed' = changed
       /\ ev'.type = "forward" =>
             \A c \in Views : \A o \in Origins :
                changed'[c][o] =
                    IF c \in Kids(ev'.v) /\ o = ev'.v /\ ~BatchIsEmpty(Top.qr)
                    THEN [added |-> changed[c][o].added \cup Top.qr.added,
                          deleted |-> changed[c][o].deleted \cup Top.qr.deleted,
                          updated |-> changed[c][o].updated \cup Top.qr.updated]
                    ELSE changed[c][o]
       /\ \A v \in Views :
             IF ev'.type = "merge" /\ ev'.v = v
             THEN changed'[v] = NoChanges
             ELSE \A o \in Origins : BatchWithin(changed[v][o], changed'[v][o])]_vars

\* a child holds a batch of the store with two keys next to a batch of its
\* parent, to which the parent has just forwarded again
C24_Witness ==
    /\ ev.type = "forward"
    /\ ev.v = 1
    /\ 2 \in Kids(1)
    /\ changed[2][StoreGuid].updated = 1..NBatchKeys
    /\ changed[2][1].added # {}
    /\ changed[2][1].deleted # {}
    /\ changed[2][2] = NoBatch

\* the flush at the top of the stack is about to test its guards, and no
\* other flush of the same record array is on the stack
FreshFlush ==
    /\ Running
    /\ Top.op = "flush"
    /\ Top.pc = "start"
    /\ \A i \in 1..(Depth - 1) : ~(stack[i].op = "flush" /\ stack[i].v = Top.v)

DestroyReturned == Depth = 1 /\ Top.op = "destroy()" /\ Top.pc = "done"

\* no destroyed record array is a member of a nestedRecordArrays set
NoDestroyedMember == \A p \in Views : \A c \in Kids(p) : ~isDestroyed[c]

\* registerWithParents adds the record array to the set of every scope
\* source, where it is a member once however often it registers
RegistersOnce ==
    ev'.type = "call" /\ stack'[1].op = "registerWithParents" =>
        \A p \in Views :
            nested'[p].members =
                IF p \in Parents(ev'.v) THEN Kids(p) \cup {ev'.v} ELSE nested[p].members

\* C27 (as stated): after any destroy() of a record array returns, it and
\* every record array that was its registered child, directly or through
\* other children, are destroyed; no destroyed record array is a member of
\* any nestedRecordArrays set; registering a child twice leaves one
\* membership.
C27_DestroyCleansHierarchy ==
    /\ [](DestroyReturned => \A w \in Top.rest : isDestroyed[w])
    /\ [](Idle \/ DestroyReturned => NoDestroyedMember)
    /\ [][RegistersOnce]_vars

\* C27 (amended): the same for the destroy() of a record array that was not
\* destroyed before; a destroy() of a destroyed record array changes
\* nothing, so a child registered with it after its destruction lives on.
C27_FirstDestroyCleansHierarchy ==
    /\ [](DestroyReturned /\ ~Top.pre => \A w \in Top.rest : isDestroyed[w])
    /\ [](DestroyReturned /\ Top.pre => ev.type = "destroySkip")
    /\ [](Idle \/ DestroyReturned => NoDestroyedMember)
    /\ [][RegistersOnce]_vars

\* the destroy() of a root with a child and a grandchild that is also its
\* own child has returned: all three are destroyed, no set has a member
C27_Witness ==
    /\ DestroyReturned
    /\ ~Top.pre
    /\ Top.v = 1
    /\ Top.rest = {1, 2, 3}
    /\ query[3].scope = <<1, 2>>
    /\ \A w \in Top.rest : isDestroyed[w]
    /\ \A p \in Views : Kids(p) = {}

====
